---- MODULE Spec2Model ----
(***************************************************************************)
(* DHSD dataset statistics and integrity checker (dataset_statistics.py):  *)
(* the statistics aggregator, the stratified splitter, the existence       *)
(* verifier, the checksum generator and the run of main that chains them.  *)
(***************************************************************************)
EXTENDS Integers, Sequences, FiniteSets, TLC

VARIABLES
    pc,          \* position of the run (main) or of the caller (library use)
    args,        \* parsed command line: [split, verify, checksums]
    fs,          \* file system under BASE_DIR: name -> status
    manifest,    \* the records data.csv holds
    rows,        \* the loaded record list (the caller's list object)
    test_ratio,  \* the ratio handed to stratified_split, as written (num/den)
    seed,        \* the seed handed to stratified_split
    rows0,       \* the record list as it was when first handed to the splitter
    stats,       \* what compute_statistics returned
    verified,    \* what verify_images found
    splits,      \* the (train, test) pairs stratified_split returned, in call order
    entries,     \* the entry list generate_checksums built
    disk,        \* the artifacts this run wrote: name -> [status, lines]
    err          \* the exception that ended the run or the call

vars == << pc, args, fs, manifest, rows, test_ratio, seed, rows0, stats, verified,
           splits, entries, disk, err >>

(***************************************************************************)
(* Bounds of the modelled inputs.                                          *)
(***************************************************************************)
MaxRows == 2
MaxBulk == 11

(***************************************************************************)
(* Integer and binary64 arithmetic.                                        *)
(***************************************************************************)
Max(a, b) == IF a >= b THEN a ELSE b
Min(a, b) == IF a <= b THEN a ELSE b

(* Natural numbers wider than 32 bits: little-endian sequences             *)
(* of LimbBits-bit limbs without leading zero limbs.                          *)
LimbBits == 15
Base == 2 ^ LimbBits

RECURSIVE NatOf(_)
NatOf(n) == IF n = 0 THEN << >> ELSE << n % Base >> \o NatOf(n \div Base)

RECURSIVE ValOf(_)
ValOf(a) == IF a = << >> THEN 0 ELSE a[1] + Base * ValOf(Tail(a))

RECURSIVE Trim(_)
Trim(a) == IF a = << >> \/ a[Len(a)] # 0 THEN a ELSE Trim(SubSeq(a, 1, Len(a) - 1))

Limb(a, i) == IF i <= Len(a) THEN a[i] ELSE 0

RECURSIVE AddCarry(_, _, _, _)
AddCarry(a, b, i, c) ==
    IF i > Max(Len(a), Len(b))
    THEN IF c = 0 THEN << >> ELSE << c >>
    ELSE LET s == Limb(a, i) + Limb(b, i) + c
         IN  << s % Base >> \o AddCarry(a, b, i + 1, s \div Base)
AddN(a, b) == Trim(AddCarry(a, b, 1, 0))

RECURSIVE SubBorrow(_, _, _, _)
SubBorrow(a, b, i, c) ==
    IF i > Len(a) THEN << >>
    ELSE LET d == Limb(a, i) - Limb(b, i) - c
         IN  << d % Base >> \o SubBorrow(a, b, i + 1, IF d < 0 THEN 1 ELSE 0)
SubN(a, b) == Trim(SubBorrow(a, b, 1, 0))

RECURSIVE LessFrom(_, _, _)
LessFrom(a, b, i) ==
    IF i = 0 THEN FALSE
    ELSE IF Limb(a, i) # Limb(b, i) THEN Limb(a, i) < Limb(b, i)
    ELSE LessFrom(a, b, i - 1)
LessN(a, b) == LessFrom(a, b, Max(Len(a), Len(b)))

RECURSIVE MulCarry(_, _, _, _)
MulCarry(a, m, i, c) ==
    IF i > Len(a)
    THEN IF c = 0 THEN << >> ELSE << c >>
    ELSE LET p == a[i] * m + c
         IN  << p % Base >> \o MulCarry(a, m, i + 1, p \div Base)
MulLimb(a, m) == Trim(MulCarry(a, m, 1, 0))

ShlLimbs(a, k) == IF a = << >> THEN << >> ELSE [i \in 1..k |-> 0] \o a

RECURSIVE MulFrom(_, _, _)
MulFrom(a, b, i) ==
    IF i > Len(b) THEN << >>
    ELSE AddN(ShlLimbs(MulLimb(a, b[i]), i - 1), MulFrom(a, b, i + 1))
MulN(a, b) == MulFrom(a, b, 1)

ShlN(a, k) == ShlLimbs(MulLimb(a, 2 ^ (k % LimbBits)), k \div LimbBits)

ShrN(a, k) ==
    LET q == k \div LimbBits
        r == k % LimbBits
        n == Len(a) - q
    IN  IF n <= 0 THEN << >>
        ELSE Trim([i \in 1..n |->
                 (a[q + i] \div 2 ^ r) + (Limb(a, q + i + 1) % 2 ^ r) * 2 ^ (LimbBits - r)])

BitLen(a) ==
    IF a = << >> THEN 0
    ELSE LimbBits * (Len(a) - 1)
         + (CHOOSE k \in 1..LimbBits : 2 ^ (k - 1) <= a[Len(a)] /\ a[Len(a)] < 2 ^ k)

BitAt(a, i) == (Limb(a, (i - 1) \div LimbBits + 1) \div 2 ^ ((i - 1) % LimbBits)) % 2

LowBitsZero(a, k) ==
    /\ \A i \in 1..(k \div LimbBits) : Limb(a, i) = 0
    /\ Limb(a, k \div LimbBits + 1) % 2 ^ (k % LimbBits) = 0

(* IEEE-754 binary64 values: (-1)^neg * mant * 2^exp, mant below 2^MantBits *)
(* after rounding to nearest, ties to even.                                 *)
MantBits == 53
FracLimbs == 5

Round(neg, n, e) ==
    LET s == BitLen(n) - MantBits
    IN  IF s <= 0 THEN [neg |-> neg, mant |-> n, exp |-> e]
        ELSE LET kept == ShrN(n, s)
                 up   == BitAt(n, s) = 1 /\ (~LowBitsZero(n, s - 1) \/ kept[1] % 2 = 1)
             IN  [neg |-> neg,
                  mant |-> IF up THEN AddN(kept, << 1 >>) ELSE kept,
                  exp |-> e + s]

RECURSIVE FracDigits(_, _, _)
FracDigits(r, den, k) ==
    IF k = 0 THEN << IF r = 0 THEN 0 ELSE 1 >>
    ELSE FracDigits((Base * r) % den, den, k - 1) \o << (Base * r) \div den >>

FloatOfLiteral(lit) ==
    LET a == IF lit[1] < 0 THEN -lit[1] ELSE lit[1]
        d == FracDigits(a % lit[2], lit[2], FracLimbs)
        n == Trim(Tail(d) \o NatOf(a \div lit[2]))
    IN  Round(lit[1] < 0, AddN(ShlN(n, 1), NatOf(d[1])), -(LimbBits * FracLimbs + 1))

FloatOfInt(n) == [neg |-> n < 0, mant |-> NatOf(IF n < 0 THEN -n ELSE n), exp |-> 0]

FSub(x, y) ==
    LET e == Min(x.exp, y.exp)
        a == ShlN(x.mant, x.exp - e)
        b == ShlN(y.mant, y.exp - e)
    IN  IF x.neg # y.neg THEN Round(x.neg, AddN(a, b), e)
        ELSE IF LessN(a, b) THEN Round(~x.neg, SubN(b, a), e)
        ELSE Round(x.neg, SubN(a, b), e)

FMul(x, y) == Round(x.neg # y.neg, MulN(x.mant, y.mant), x.exp + y.exp)

FTrunc(x) ==
    LET m == IF x.exp >= 0 THEN ValOf(ShlN(x.mant, x.exp)) ELSE ValOf(ShrN(x.mant, -x.exp))
    IN  IF x.neg THEN -m ELSE m

(***************************************************************************)
(* Records, manifests and the file system.                                 *)
(***************************************************************************)
NoValue == "none"

Range(s) == { s[i] : i \in DOMAIN s }

SeqToBag(s) == [ x \in Range(s) |-> Cardinality({ i \in DOMAIN s : s[i] = x }) ]

RECURSIVE SumOver(_, _)
SumOver(f, S) ==
    IF S = {} THEN 0
    ELSE LET x == CHOOSE y \in S : TRUE
         IN  f[x] + SumOver(f, S \ {x})

\* A record is one row of csv.DictReader: three string fields. A text is the
\* sequence of its characters.
Rec(f, t, w) == [file_name |-> f, text |-> t, writer_id |-> w]

Records ==
    { Rec("a.png", << "S", "ß" >>, "1"),
      Rec("b.png", << "ü" >>, "01"),
      Rec("a.png", << "S", "ß" >>, "2"),
      Rec("c.png", << "x", "y", "z" >>, "10") }

\* int(r["writer_id"]) on the decimal strings the records use.
IntOf(w) ==
    CASE w = "1"  -> 1
      [] w = "01" -> 1
      [] w = "2"  -> 2
      [] w = "10" -> 10

SeqsUpTo(S, n) == UNION { [1..k -> S] : k \in 0..n }

\* A large manifest: one row of writer 2, then rows of writer 1 (written "01"
\* or "1") that name three files in turn.
BulkRecords ==
    << Rec("b.png", << "ü" >>, "01"),
       Rec("a.png", << "S", "ß" >>, "1"),
       Rec("c.png", << >>, "1") >>

Bulk(n) ==
    [ i \in 1..n |-> IF i = 1 THEN Rec("a.png", << "S", "ß" >>, "2")
                              ELSE BulkRecords[((i - 2) % 3) + 1] ]

Manifests == SeqsUpTo(Records, MaxRows) \cup { Bulk(n) : n \in (MaxRows + 1)..MaxBulk }

CSV_NAME == "data.csv"
ImageNames == { r.file_name : r \in Records }
FileStatus == { "file", "missing", "dir", "unreadable" }

\* Path.is_file(): a regular file, readable or not.
IsFile(f, name) == f[name] \in { "file", "unreadable" }

\* Path.read_bytes(): the content of a readable regular file.
ReadBytes(f, name, content) ==
    IF f[name] = "file" THEN [raised |-> NoValue, bytes |-> content]
    ELSE [raised |-> "PermissionError", bytes |-> NoValue]

\* load_annotations(csv_path): open() and csv.DictReader over the manifest.
load_annotations(f, csv) == ReadBytes(f, CSV_NAME, csv)

(***************************************************************************)
(* compute_statistics                                                      *)
(***************************************************************************)
GERMAN_SPECIAL == { "ä", "ö", "ü", "Ä", "Ö", "Ü", "ß" }

Texts(rs) == [ i \in DOMAIN rs |-> rs[i].text ]
WriterIds(rs) == [ i \in DOMAIN rs |-> IntOf(rs[i].writer_id) ]

\* collections.Counter over a list.
Counter_OfSet(s) == [ x \in Range(s) |-> 1 ]
Counter(s) == SeqToBag(s)

RECURSIVE Join(_)
Join(ts) == IF ts = << >> THEN << >> ELSE Head(ts) \o Join(Tail(ts))

Raise(kind) == [raised |-> kind, value |-> NoValue]
Return(v) == [raised |-> NoValue, value |-> v]

\* min() / max() of a collection: ValueError on an empty one.
PyMin(S) == IF S = {} THEN Raise("ValueError")
            ELSE Return(CHOOSE x \in S : \A y \in S : x <= y)
PyMax(S) == IF S = {} THEN Raise("ValueError")
            ELSE Return(CHOOSE x \in S : \A y \in S : x >= y)

\* a / b on ints: the float quotient, kept as the pair of its operands.
PyDiv(a, b) == IF b = 0 THEN Raise("ZeroDivisionError") ELSE Return(<< a, b >>)

RECURSIVE SortedSeq(_)
SortedSeq(S) ==
    IF S = {} THEN << >>
    ELSE LET m == CHOOSE x \in S : \A y \in S : x <= y
         IN  << m >> \o SortedSeq(S \ {m})

\* sorted() of a set of the special characters: by code point.
CodePoint(c) ==
    CASE c = "Ä" -> 196 [] c = "Ö" -> 214 [] c = "Ü" -> 220 [] c = "ß" -> 223
      [] c = "ä" -> 228 [] c = "ö" -> 246 [] c = "ü" -> 252

RECURSIVE SortedChars(_)
SortedChars(S) ==
    IF S = {} THEN << >>
    ELSE LET m == CHOOSE x \in S : \A y \in S : CodePoint(x) <= CodePoint(y)
         IN  << m >> \o SortedChars(S \ {m})

\* The aggregator with min/max defaulting to 0 on an empty collection.
compute_statistics_zero_on_empty(rs) ==
    LET writer_counts == Counter(WriterIds(rs))
    IN  Return([ total_images  |-> Len(rs),
                 total_writers |-> Cardinality(DOMAIN writer_counts),
                 writer_counts |-> writer_counts,
                 min_words_per_writer |-> 0,
                 max_words_per_writer |-> 0 ])

compute_statistics(rs) ==
    LET texts         == Texts(rs)
        writer_counts == Counter(WriterIds(rs))
        unique_texts  == Range(texts)
        all_chars     == Range(Join(texts))
        char_freq     == Counter(Join(texts))
        lengths       == [ i \in DOMAIN texts |-> Len(texts[i]) ]
        counts        == Range(writer_counts)
        total         == SumOver(writer_counts, DOMAIN writer_counts)
    IN  IF PyMin(counts).raised # NoValue THEN Raise(PyMin(counts).raised)
        ELSE Return(
          [ total_images         |-> Len(rs),
            total_writers        |-> Cardinality(DOMAIN writer_counts),
            unique_words         |-> Cardinality(unique_texts),
            writer_counts        |-> writer_counts,
            min_words_per_writer |-> PyMin(counts).value,
            max_words_per_writer |-> PyMax(counts).value,
            avg_words_per_writer |->
                PyDiv(total, Cardinality(DOMAIN writer_counts)).value,
            german_chars_present |-> SortedChars(GERMAN_SPECIAL \cap all_chars),
            german_chars_missing |-> SortedChars(GERMAN_SPECIAL \ all_chars),
            char_freq            |-> char_freq,
            avg_word_length      |->
                PyDiv(SumOver(lengths, DOMAIN lengths), Len(lengths)).value,
            min_word_length      |-> PyMin(Range(lengths)).value,
            max_word_length      |-> PyMax(Range(lengths)).value,
            writer_ids_sorted    |-> SortedSeq(DOMAIN writer_counts) ])

(***************************************************************************)
(* stratified_split                                                        *)
(***************************************************************************)
RANDOM_SEED == 42
TEST_RATIO == << 1, 5 >>

\* random.Random(seed), rng.shuffle: the generator is the standard library's.
\* It is modelled by a linear congruential generator: what the splitter relies
\* on is that the stream is a function of the seed and of the draws made.
RngSeed(s) == s % 65537
RngNext(state) == (75 * state + 74) % 65537
RandBelow(state, n) == state % n

Swap(x, i, j) == [x EXCEPT ![i] = x[j], ![j] = x[i]]

\* for i in reversed(range(1, len(x))): j = randbelow(i + 1); x[i], x[j] = x[j], x[i]
RECURSIVE ShuffleFrom(_, _, _)
ShuffleFrom(x, i, state) ==
    IF i < 2 THEN [list |-> x, state |-> state]
    ELSE LET s == RngNext(state)
         IN  ShuffleFrom(Swap(x, i, RandBelow(s, i) + 1), i - 1, s)
Shuffle(x, state) == ShuffleFrom(x, Len(x), state)

\* by_writer.setdefault(wid, []).append(r) over the rows, in order: fresh lists.
ByWriter(rs) ==
    [ w \in Range(WriterIds(rs)) |->
        SelectSeq(rs, LAMBDA r : IntOf(r.writer_id) = w) ]

\* int(len(samples) * (1 - test_ratio)) in float arithmetic, then max(1, .).
SplitIdx(n, ratio) ==
    Max(1, FTrunc(FMul(FloatOfInt(n), FSub(FloatOfInt(1), FloatOfLiteral(ratio)))))

\* s[:k] and s[k:] for k >= 0.
SliceTo(s, k) == SubSeq(s, 1, Min(k, Len(s)))
SliceFrom_SkipOne(s, k) == SubSeq(s, k + 2, Len(s))
SliceFrom(s, k) == SubSeq(s, k + 1, Len(s))

RECURSIVE SplitLoop(_, _, _, _, _, _)
SplitLoop(by_writer, wids, ratio, state, train, test) ==
    IF wids = << >> THEN [train |-> train, test |-> test]
    ELSE LET sh        == Shuffle(by_writer[Head(wids)], state)
             samples   == sh.list
             split_idx == SplitIdx(Len(samples), ratio)
         IN  SplitLoop(by_writer, Tail(wids), ratio, sh.state,
                       train \o SliceTo(samples, split_idx),
                       test \o SliceFrom(samples, split_idx))

\* The same split with the caller's list shuffled in place before grouping.
stratified_split_in_place(rs, ratio, sd) ==
    LET sh        == Shuffle(rs, RngSeed(sd))
        by_writer == ByWriter(sh.list)
        parts     == SplitLoop(by_writer, SortedSeq(DOMAIN by_writer), ratio,
                               sh.state, << >>, << >>)
    IN  [raised |-> NoValue, train |-> parts.train, test |-> parts.test, rows |-> sh.list]

\* stratified_split(rows, test_ratio, seed): the pair returned and the caller's
\* list as the call leaves it. No path of the function raises.
stratified_split(rs, ratio, sd) ==
    LET by_writer == ByWriter(rs)
        parts     == SplitLoop(by_writer, SortedSeq(DOMAIN by_writer), ratio,
                               RngSeed(sd), << >>, << >>)
    IN  [raised |-> NoValue, train |-> parts.train, test |-> parts.test, rows |-> rs]

(***************************************************************************)
(* write_split_csv                                                         *)
(***************************************************************************)
FIELDNAMES == << "file_name", "text", "writer_id" >>

CsvLines(rs) == << FIELDNAMES >> \o rs

Untouched == [status |-> "untouched", lines |-> << >>]

\* open(path, "w"), then the lines: the file as the call leaves it. The call
\* may fail in open() (nothing created), fail while writing (a truncated file,
\* here with the last line lost), or complete.
WriteOutcomes == { "open_failed", "write_failed", "ok" }

WriteFile(lines, outcome) ==
    CASE outcome = "open_failed"  -> Untouched
      [] outcome = "write_failed" ->
             [status |-> "partial", lines |-> SubSeq(lines, 1, Len(lines) - 1)]
      [] outcome = "ok"           -> [status |-> "complete", lines |-> lines]

\* write_split_csv(rows, path): the file as the call leaves it.
write_split_csv(rs, outcome) == WriteFile(CsvLines(rs), outcome)

(***************************************************************************)
(* verify_images                                                           *)
(***************************************************************************)
RECURSIVE MissingDistinct(_, _, _)
MissingDistinct(rs, f, missing) ==
    IF rs = << >> THEN missing
    ELSE MissingDistinct(Tail(rs), f,
             IF IsFile(f, Head(rs).file_name) \/ Head(rs).file_name \in Range(missing)
             THEN missing ELSE Append(missing, Head(rs).file_name))

RECURSIVE MissingLoop(_, _, _)
MissingLoop(rs, f, missing) ==
    IF rs = << >> THEN missing
    ELSE MissingLoop(Tail(rs), f,
             IF IsFile(f, Head(rs).file_name) THEN missing
             ELSE Append(missing, Head(rs).file_name))

verify_images(rs, f) ==
    LET missing == MissingLoop(rs, f, << >>)
    IN  [all_present |-> missing = << >>, missing |-> missing]

(***************************************************************************)
(* generate_checksums                                                      *)
(***************************************************************************)
\* hashlib.sha256(bytes).hexdigest(): a function of the bytes.
Sha256(bytes) == << "sha256", bytes >>

\* The bytes of an image file, by its name.
ImageBytes(name) == << "bytes", name >>

\* f"{sha}  {identifier}"
Entry(sha, identifier) == [digest |-> sha, identifier |-> identifier]

RECURSIVE ChecksumLoop_Dedup(_, _, _)
ChecksumLoop_Dedup(rs, f, es) ==
    IF rs = << >> THEN Return(es)
    ELSE LET name == Head(rs).file_name
         IN  IF ~IsFile(f, name) \/ \E i \in DOMAIN es : es[i].identifier = name
             THEN ChecksumLoop_Dedup(Tail(rs), f, es)
             ELSE LET rd == ReadBytes(f, name, ImageBytes(name))
                  IN  IF rd.raised # NoValue THEN Raise(rd.raised)
                      ELSE ChecksumLoop_Dedup(Tail(rs), f,
                                              Append(es, Entry(Sha256(rd.bytes), name)))

RECURSIVE ChecksumLoop(_, _, _)
ChecksumLoop(rs, f, es) ==
    IF rs = << >> THEN Return(es)
    ELSE LET name == Head(rs).file_name
         IN  IF ~IsFile(f, name) THEN ChecksumLoop(Tail(rs), f, es)
             ELSE LET rd == ReadBytes(f, name, ImageBytes(name))
                  IN  IF rd.raised # NoValue THEN Raise(rd.raised)
                      ELSE ChecksumLoop(Tail(rs), f,
                                        Append(es, Entry(Sha256(rd.bytes), name)))

\* The entry list generate_checksums builds before it opens checksums.sha256.
ChecksumEntries(rs, f, csv) ==
    LET rd == ReadBytes(f, CSV_NAME, csv)
    IN  IF rd.raised # NoValue THEN Raise(rd.raised)
        ELSE ChecksumLoop(rs, f, << Entry(Sha256(rd.bytes), CSV_NAME) >>)

\* generate_checksums(rows): the entry list, then checksums.sha256 written from it.
generate_checksums(rs, f, csv, outcome) ==
    LET e == ChecksumEntries(rs, f, csv)
    IN  IF e.raised # NoValue
        THEN [raised |-> e.raised, entries |-> << >>, file |-> Untouched]
        ELSE LET file == WriteFile(e.value, outcome)
             IN  [raised  |-> IF file.status = "complete" THEN NoValue ELSE "OSError",
                  entries |-> e.value,
                  file    |-> file]

(***************************************************************************)
(* Library use of the splitter: a caller hands a record list, a ratio and  *)
(* a seed to stratified_split, twice.                                      *)
(***************************************************************************)
Ratios == { << 1, 5 >>, << 4, 5 >>, << 1, 2 >>, << 0, 1 >>, << 1, 1 >>, << -1, 2 >>,
            << 3, 2 >> }
Seeds == { RANDOM_SEED, 7 }

Artifacts == { "train.csv", "test.csv", "checksums.sha256" }

InitSplit ==
    /\ pc = "ready"
    /\ rows \in Manifests
    /\ rows0 = rows
    /\ test_ratio \in Ratios
    /\ seed \in Seeds
    /\ args = [split |-> FALSE, verify |-> FALSE, checksums |-> FALSE]
    /\ fs = [n \in ImageNames \cup {CSV_NAME} |-> "missing"]
    /\ manifest = << >>
    /\ stats = << >>
    /\ verified = << >>
    /\ splits = << >>
    /\ entries = << >>
    /\ disk = [a \in Artifacts |-> Untouched]
    /\ err = NoValue

CallSplit ==
    /\ pc \in { "ready", "split_once" }
    /\ LET r == stratified_split(rows, test_ratio, seed)
       IN  IF r.raised # NoValue
           THEN /\ err' = r.raised
                /\ pc' = "raised"
                /\ UNCHANGED << rows, splits >>
           ELSE /\ splits' = Append(splits, [train |-> r.train, test |-> r.test])
                /\ rows' = r.rows
                /\ pc' = IF pc = "ready" THEN "split_once" ELSE "split_twice"
                /\ err' = err
    /\ UNCHANGED << args, fs, manifest, test_ratio, seed, rows0, stats, verified,
                    entries, disk >>

NextSplit == CallSplit

SpecSplit == InitSplit /\ [][NextSplit]_vars

(***************************************************************************)
(* A run of main.                                                          *)
(***************************************************************************)
InitMain ==
    /\ pc = "start"
    /\ args \in [split : BOOLEAN, verify : BOOLEAN, checksums : BOOLEAN]
    /\ fs \in [ImageNames \cup {CSV_NAME} -> FileStatus]
    /\ manifest \in IF fs[CSV_NAME] = "file" THEN Manifests ELSE { << >> }
    \* a file no record names is never looked at: it is left out of the directory
    /\ \A n \in ImageNames :
           n \notin { manifest[i].file_name : i \in DOMAIN manifest } => fs[n] = "missing"
    /\ rows = << >>
    /\ rows0 = << >>
    /\ test_ratio = TEST_RATIO
    /\ seed = RANDOM_SEED
    /\ stats = << >>
    /\ verified = << >>
    /\ splits = << >>
    /\ entries = << >>
    /\ disk = [a \in Artifacts |-> Untouched]
    /\ err = NoValue

\* if not CSV_PATH.is_file(): sys.exit(1)
CheckManifest ==
    /\ pc = "start"
    /\ IF IsFile(fs, CSV_NAME)
       THEN pc' = "load" /\ err' = err
       ELSE pc' = "exited" /\ err' = "SystemExit"
    /\ UNCHANGED << args, fs, manifest, rows, test_ratio, seed, rows0, stats,
                    verified, splits, entries, disk >>

\* rows = load_annotations(CSV_PATH); stats = compute_statistics(rows)
LoadAndAggregate ==
    /\ pc = "load"
    /\ LET rd == load_annotations(fs, manifest)
       IN  IF rd.raised # NoValue
           THEN /\ err' = rd.raised
                /\ pc' = "aborted"
                /\ UNCHANGED << rows, stats >>
           ELSE LET st == compute_statistics(rd.bytes)
                IN  /\ rows' = rd.bytes
                    /\ IF st.raised # NoValue
                       THEN err' = st.raised /\ pc' = "aborted" /\ stats' = stats
                       ELSE err' = err /\ pc' = "verify" /\ stats' = << st.value >>
    /\ UNCHANGED << args, fs, manifest, test_ratio, seed, rows0, verified, splits,
                    entries, disk >>

\* if args.verify: verify_images(rows)
Verify ==
    /\ pc = "verify"
    /\ verified' = IF args.verify THEN << verify_images(rows, fs) >> ELSE verified
    /\ pc' = "split"
    /\ UNCHANGED << args, fs, manifest, rows, test_ratio, seed, rows0, stats, splits,
                    entries, disk, err >>

\* if args.split: train, test = stratified_split(rows); write_split_csv(train, ...)
SplitAndWriteTrain ==
    /\ pc = "split"
    /\ IF ~args.split
       THEN /\ pc' = "checksums"
            /\ UNCHANGED << rows, rows0, splits, disk, err >>
       ELSE LET r == stratified_split(rows, test_ratio, seed)
            IN  /\ rows0' = rows
                /\ rows' = r.rows
                /\ splits' = Append(splits, [train |-> r.train, test |-> r.test])
                /\ \E o \in WriteOutcomes :
                     /\ disk' = [disk EXCEPT !["train.csv"] = write_split_csv(r.train, o)]
                     /\ IF disk'["train.csv"].status = "complete"
                        THEN pc' = "write_test" /\ err' = err
                        ELSE pc' = "aborted" /\ err' = "OSError"
    /\ UNCHANGED << args, fs, manifest, test_ratio, seed, stats, verified, entries >>

\* write_split_csv(test, BASE_DIR / "test.csv")
WriteTest ==
    /\ pc = "write_test"
    /\ \E o \in WriteOutcomes :
         /\ disk' = [disk EXCEPT !["test.csv"] = write_split_csv(splits[1].test, o)]
         /\ IF disk'["test.csv"].status = "complete"
            THEN pc' = "checksums" /\ err' = err
            ELSE pc' = "aborted" /\ err' = "OSError"
    /\ UNCHANGED << args, fs, manifest, rows, test_ratio, seed, rows0, stats, verified,
                    splits, entries >>

\* if args.checksums: generate_checksums(rows)
Checksums ==
    /\ pc = "checksums"
    /\ IF ~args.checksums
       THEN /\ pc' = "done"
            /\ UNCHANGED << entries, disk, err >>
       ELSE \E o \in WriteOutcomes :
                LET g == generate_checksums(rows, fs, manifest, o)
                IN  /\ entries' = g.entries
                    /\ disk' = [disk EXCEPT !["checksums.sha256"] = g.file]
                    /\ IF g.raised # NoValue
                       THEN pc' = "aborted" /\ err' = g.raised
                       ELSE pc' = "done" /\ err' = err
    /\ UNCHANGED << args, fs, manifest, rows, test_ratio, seed, rows0, stats, verified,
                    splits >>

NextMain ==
    \/ CheckManifest
    \/ LoadAndAggregate
    \/ Verify
    \/ SplitAndWriteTrain
    \/ WriteTest
    \/ Checksums

SpecMain == InitMain /\ [][NextMain]_vars

(***************************************************************************)
(* Properties of the splitter (checked under SpecSplit).                   *)
(***************************************************************************)
InOpenUnit(ratio) == 0 < ratio[1] /\ ratio[1] < ratio[2]

CountOf(rs, w) == Cardinality({ i \in DOMAIN rs : IntOf(rs[i].writer_id) = w })

\* floor(n * (1 - ratio)) for the ratio as written.
ExactFloor(n, ratio) == (n * (ratio[2] - ratio[1])) \div ratio[2]

\* C1: for a test_ratio in (0,1), train + test holds every input record
\* occurrence exactly once: as multisets, train + test equals the input.
C1_PartitionComplete ==
    InOpenUnit(test_ratio) =>
        \A k \in DOMAIN splits :
            SeqToBag(splits[k].train \o splits[k].test) = SeqToBag(rows0)

C1_Witness ==
    /\ InOpenUnit(test_ratio)
    /\ splits # << >>
    /\ splits[1].train # << >>
    /\ splits[1].test # << >>
    /\ \E i, j \in DOMAIN rows0 : i # j /\ rows0[i] = rows0[j]

\* C2: for a test_ratio in (0,1), every writer with n >= 1 records has exactly
\* max(1, floor(n * (1 - test_ratio))) of them in train and the rest in test.
C2_StratificationFloor ==
    InOpenUnit(test_ratio) =>
        \A k \in DOMAIN splits : \A w \in Range(WriterIds(rows0)) :
            LET n == CountOf(rows0, w)
            IN  /\ CountOf(splits[k].train, w) = Max(1, ExactFloor(n, test_ratio))
                /\ CountOf(splits[k].test, w) = n - CountOf(splits[k].train, w)

\* C3: a call with a test_ratio outside (0,1) fails and returns no pair.
C3_InvalidRatioRejected ==
    (pc # "ready" /\ ~InOpenUnit(test_ratio)) => (err # NoValue /\ splits = << >>)

\* C8: a call with an empty record sequence fails and returns no pair.
C8_EmptyInputRejected ==
    (pc # "ready" /\ rows0 = << >>) => (err # NoValue /\ splits = << >>)

\* C9: the first call leaves the caller's record list as it was, and two calls
\* with the same list, ratio and seed return the same train and the same test.
C9_Deterministic ==
    /\ pc # "ready" => rows = rows0
    /\ pc = "split_twice" =>
           /\ splits[1].train = splits[2].train
           /\ splits[1].test = splits[2].test

C9_Witness ==
    /\ pc = "split_twice"
    /\ splits[2].test # << >>
    /\ Len(rows0) >= 3
    /\ \E i \in DOMAIN rows0 : (splits[2].train \o splits[2].test)[i] # rows0[i]

(***************************************************************************)
(* Properties of a run of main (checked under SpecMain).                   *)
(***************************************************************************)
FileNames(rs) == [ i \in DOMAIN rs |-> rs[i].file_name ]
Identifiers(es) == [ i \in DOMAIN es |-> es[i].identifier ]
Loaded == pc \notin { "start", "load", "exited" } /\ fs[CSV_NAME] = "file"

\* C4: a run that ended with a fatal error has written none of train.csv,
\* test.csv, checksums.sha256, whole or in part.
C4_NoOutputOnAbort ==
    pc \in { "aborted", "exited" } =>
        \A a \in Artifacts : disk[a].status = "untouched"

\* C5: when every existing referenced file is readable, building the entry list
\* raises nothing, and the list is the data.csv entry followed by one entry per
\* record whose file exists, in manifest order, duplicates kept.
C5_ChecksumEntries ==
    /\ (Loaded /\ \A n \in Range(FileNames(rows)) : fs[n] # "unreadable")
           => /\ err # "PermissionError"
              /\ (pc = "done" /\ args.checksums) => entries # << >>
    /\ entries # << >> =>
           /\ entries[1] = Entry(Sha256(manifest), CSV_NAME)
           /\ Identifiers(Tail(entries))
                  = SelectSeq(FileNames(rows), LAMBDA n : IsFile(fs, n))
           /\ \A i \in 2..Len(entries) :
                  entries[i].digest = Sha256(ImageBytes(entries[i].identifier))

C5_Witness ==
    /\ entries # << >>
    /\ \E i, j \in 2..Len(entries) : i # j /\ entries[i] = entries[j]
    /\ \E i \in DOMAIN rows : ~IsFile(fs, rows[i].file_name)
    /\ \E i \in 2..(Len(entries) - 1) :
           entries[i].identifier = "b.png" /\ entries[i + 1].identifier = "a.png"

\* C6: the verifier raises nothing, reports all_present exactly when no record's
\* path is missing as a regular file, and lists the file_name of every record
\* whose file is absent, in manifest order.
C6_VerifierCorrect ==
    /\ (Loaded /\ args.verify /\ pc # "verify" /\ stats # << >>) => verified # << >>
    /\ verified # << >> =>
           /\ verified[1].all_present
                  <=> \A i \in DOMAIN rows : IsFile(fs, rows[i].file_name)
           /\ verified[1].missing
                  = SelectSeq(FileNames(rows), LAMBDA n : ~IsFile(fs, n))

C6_Witness ==
    /\ verified # << >>
    /\ ~verified[1].all_present
    /\ \E i, j \in DOMAIN verified[1].missing :
           i # j /\ verified[1].missing[i] = verified[1].missing[j]
    /\ \E i \in DOMAIN rows : IsFile(fs, rows[i].file_name)

\* C7: on an empty record sequence the aggregator fails with an error and no
\* statistics snapshot exists.
C7_EmptyDatasetFails ==
    (Loaded /\ rows = << >>) => (pc = "aborted" /\ err = "ValueError" /\ stats = << >>)

C7_Witness ==
    /\ Loaded
    /\ rows = << >>
    /\ manifest = << >>
    /\ err = "ValueError"

\* C10: the snapshot's total_images is the number of records, the writer_counts
\* values sum to it, and the writer_counts keys are the writer ids of the input.
C10_CountsConsistent ==
    stats # << >> =>
        /\ stats[1].total_images = Len(rows)
        /\ SumOver(stats[1].writer_counts, DOMAIN stats[1].writer_counts)
               = stats[1].total_images
        /\ DOMAIN stats[1].writer_counts = { IntOf(rows[i].writer_id) : i \in DOMAIN rows }

C10_Witness ==
    /\ stats # << >>
    /\ Len(rows) >= 3
    /\ \E i, j \in DOMAIN rows :
           /\ rows[i].writer_id # rows[j].writer_id
           /\ IntOf(rows[i].writer_id) = IntOf(rows[j].writer_id)
    /\ Cardinality(DOMAIN stats[1].writer_counts) >= 2

====
